---- MODULE Spec2Model ----
(***************************************************************************)
(* Model of Matrices_5_6.ipynb: find_submatrix (search of a 2-D pattern in *)
(* the last two axes of an N-dimensional array) and rot_submatrix (rotate  *)
(* the first placement found by a number of quarter turns, in place).      *)
(*                                                                         *)
(* An ndarray is a record [shape, data]: shape is the tuple of extents,    *)
(* data the elements in row-major (C) order, as numpy stores them.  A      *)
(* coordinate is a tuple of 0-based indices, one per axis.  Pattern        *)
(* extents are at least 1.                                                 *)
(***************************************************************************)
EXTENDS Integers, Sequences, FiniteSets, TLC

\* ------------------------------------------------------------------ bounds
\* elements are drawn from 0..MaxVal
MaxVal == 1
\* increment is drawn from -MaxTurns..MaxTurns
MaxTurns == 4

Values == 0..MaxVal
Turns == (0 - MaxTurns)..MaxTurns

\* --------------------------------------------------------- ndarray basics
Min(a, b) == IF a < b THEN a ELSE b
Max(a, b) == IF a > b THEN a ELSE b
Abs(x) == IF x < 0 THEN 0 - x ELSE x

\* ndarray.ndim
Ndim(mat) == Len(mat.shape)

\* number of elements of an array of the given shape
RECURSIVE Size(_)
Size(shape) == IF shape = <<>> THEN 1 ELSE Head(shape) * Size(Tail(shape))

\* number of elements one step along axis k skips
RECURSIVE Stride(_, _)
Stride(shape, k) == IF k >= Len(shape) THEN 1 ELSE shape[k + 1] * Stride(shape, k + 1)

\* position of coordinate c in the row-major order, from 0
RECURSIVE OffsetFrom(_, _, _)
OffsetFrom(shape, c, k) ==
    IF k > Len(shape) THEN 0 ELSE c[k] * Stride(shape, k) + OffsetFrom(shape, c, k + 1)

Offset(shape, c) == OffsetFrom(shape, c, 1)

\* the coordinate at position off of the row-major order
Unravel(shape, off) ==
    [k \in 1..Len(shape) |-> (off \div Stride(shape, k)) % shape[k]]

\* the coordinates of an array of the given shape in row-major order, the
\* order in which numpy traverses an array
RowMajor(shape) == [i \in 1..Size(shape) |-> Unravel(shape, i - 1)]

\* every coordinate of an array of the given shape
Coords(shape) == {Unravel(shape, off) : off \in 0..(Size(shape) - 1)}

\* mat[c] for a full coordinate c
At(mat, c) == mat.data[Offset(mat.shape, c) + 1]

\* all arrays of one shape over the element values
ArraysOf(shape) ==
    {[shape |-> shape, data |-> d] : d \in [1..Size(shape) -> Values]}

\* ------------------------------------------------------- numpy semantics
\* basic slicing big_mat[tuple(nslice)]: one slice per axis, each stop
\* clipped to the extent of its axis (numpy never raises on a slice that
\* runs past the end, it returns the shorter view)
ExtractShape(mat, nslice) ==
    [k \in 1..Len(nslice) |->
        Max(0, Min(nslice[k].stop, mat.shape[k]) - nslice[k].start)]

Extract(mat, nslice) ==
    LET shp == ExtractShape(mat, nslice)
        Elem(c) == At(mat, [k \in 1..Len(nslice) |-> nslice[k].start + c[k]])
    IN [shape |-> shp, data |-> [i \in 1..Size(shp) |-> Elem(Unravel(shp, i - 1))]]

\* extent of shape s on axis k of an n-axis broadcast (shapes are aligned
\* on their trailing axes, missing leading axes count as extent 1)
BDim(s, k, n) == IF k > n - Len(s) THEN s[k - (n - Len(s))] ELSE 1

\* numpy's broadcasting rule: on every axis the extents agree or one is 1
BroadcastOK(s1, s2) ==
    LET n == Max(Len(s1), Len(s2))
    IN \A k \in 1..n :
          \/ BDim(s1, k, n) = BDim(s2, k, n)
          \/ BDim(s1, k, n) = 1
          \/ BDim(s2, k, n) = 1

BroadcastShape(s1, s2) ==
    LET n == Max(Len(s1), Len(s2))
    IN [k \in 1..n |-> IF BDim(s1, k, n) = 1 THEN BDim(s2, k, n) ELSE BDim(s1, k, n)]

\* element of mat seen at coordinate c of an n-axis broadcast
BAt(mat, c, n) ==
    LET off == n - Ndim(mat)
    IN At(mat, [j \in 1..Ndim(mat) |-> IF mat.shape[j] = 1 THEN 0 ELSE c[j + off]])

\* np.all(a == b) for two arrays whose shapes broadcast
AllEqual(a, b) ==
    LET shp == BroadcastShape(a.shape, b.shape)
    IN \A c \in Coords(shp) : BAt(a, c, Len(shp)) = BAt(b, c, Len(shp))

\* a == b for shapes that do not broadcast: NumPy before 1.25 warns and
\* yields the scalar False, NumPy 1.25 and later raise ValueError
Builds == {"legacy", "strict"}

\* ------------------------------------------------------- find_submatrix
\* np.transpose(np.where(big_mat == small_mat[0][0])): the coordinates whose
\* element equals the pattern's top-left element, in row-major order
Candidates(big_mat, small_mat) ==
    LET IsCorner(c) == At(big_mat, c) = At(small_mat, <<0, 0>>)
    IN SelectSeq(RowMajor(big_mat.shape), IsCorner)

\* the slice list built for one candidate: extent 1 on every leading axis,
\* the pattern's extents on the last two axes
NSlice(cand, size) ==
    [j \in 1..Len(cand) |->
        IF j <= Len(cand) - 2 THEN [start |-> cand[j], stop |-> cand[j] + 1]
        ELSE IF j = Len(cand) - 1 THEN [start |-> cand[j], stop |-> cand[j] + size[1]]
        ELSE [start |-> cand[j], stop |-> cand[j] + size[2]]]

\* the guard without its comparison of the two ranks
BadPattern_NdimOnly(big_mat, small_mat) == Ndim(small_mat) # 2

\* the guard of find_submatrix: the search supports 2-D patterns only
BadPattern(big_mat, small_mat) ==
    (Ndim(small_mat) > Ndim(big_mat)) \/ (Ndim(small_mat) # 2)

\* the view test_mat of one candidate can be compared with the pattern
Comparable(big_mat, small_mat, cand) ==
    BroadcastOK(ExtractShape(big_mat, NSlice(cand, small_mat.shape)), small_mat.shape)

\* some comparison test_mat == small_mat of the search meets shapes that do
\* not broadcast: the builds of numpy differ on such a search only
Clash(big_mat, small_mat) ==
    /\ ~BadPattern(big_mat, small_mat)
    /\ \E c \in Coords(big_mat.shape) :
          /\ At(big_mat, c) = At(small_mat, <<0, 0>>)
          /\ ~Comparable(big_mat, small_mat, c)

\* find_submatrix(big_mat, small_mat) under one build of numpy.
\* kind = "empty": the guard returned tuple(); kind = "pair": the pair
\* (location_list, nslice_list) was returned; kind = "ValueError": the
\* comparison test_mat == small_mat raised.
find_submatrix(big_mat, small_mat, build) ==
    IF BadPattern(big_mat, small_mat)
    THEN [kind |-> "empty", location_list |-> <<>>, nslice_list |-> <<>>]
    ELSE
      LET size == small_mat.shape
          candidates == Candidates(big_mat, small_mat)
          test_mat(c) == Extract(big_mat, NSlice(c, size))
          Hit(c) == /\ Comparable(big_mat, small_mat, c)
                    /\ AllEqual(test_mat(c), small_mat)
      IN IF build = "strict" /\ Clash(big_mat, small_mat)
         THEN [kind |-> "ValueError", location_list |-> <<>>, nslice_list |-> <<>>]
         ELSE LET hits == SelectSeq(candidates, Hit)
              IN [kind |-> "pair",
                  location_list |-> hits,
                  nslice_list |-> [i \in 1..Len(hits) |-> NSlice(hits[i], size)]]

\* ------------------------------------------------------------ rotations
\* np.flipud: reverse the order of the rows
FlipUD(mat) ==
    LET Elem(c) == At(mat, <<mat.shape[1] - 1 - c[1], c[2]>>)
    IN [shape |-> mat.shape,
        data |-> [i \in 1..Size(mat.shape) |-> Elem(Unravel(mat.shape, i - 1))]]

\* np.fliplr: reverse the order of the columns
FlipLR(mat) ==
    LET Elem(c) == At(mat, <<c[1], mat.shape[2] - 1 - c[2]>>)
    IN [shape |-> mat.shape,
        data |-> [i \in 1..Size(mat.shape) |-> Elem(Unravel(mat.shape, i - 1))]]

\* ndarray.transpose() of a 2-D array
Transpose(mat) ==
    LET shp == <<mat.shape[2], mat.shape[1]>>
        Elem(c) == At(mat, <<c[2], c[1]>>)
    IN [shape |-> shp, data |-> [i \in 1..Size(shp) |-> Elem(Unravel(shp, i - 1))]]

\* np.flip with no axis: reverse every axis
Flip(mat) ==
    LET Elem(c) == At(mat, [k \in 1..Len(c) |-> mat.shape[k] - 1 - c[k]])
    IN [shape |-> mat.shape,
        data |-> [i \in 1..Size(mat.shape) |-> Elem(Unravel(mat.shape, i - 1))]]

rotate_sqcw(mat) == Transpose(FlipUD(mat))

\* the counter-clockwise turn without its flip
rotate_sqcc_NoFlip(mat) == Transpose(mat)

rotate_sqcc(mat) == Transpose(FlipLR(mat))

rotate_180(mat) == Flip(mat)

\* -------------------------------------------------------- rot_submatrix
\* the shape check without its test for a square
PatternRejected_NdimOnly(small_mat) == Ndim(small_mat) # 2

\* the shape check at the head of rot_submatrix
PatternRejected(small_mat) ==
    IF Ndim(small_mat) # 2 THEN TRUE
    ELSE small_mat.shape[1] # small_mat.shape[2]

\* the chain with a first test that knows zero only
TurnKind_ZeroOnly(increment) ==
    IF increment = 0 THEN "none"
    ELSE IF Abs(increment) % 2 = 0 THEN "180"
    ELSE IF increment % 4 = 1 THEN "cw"
    ELSE IF increment % 4 = 3 THEN "cc"
    ELSE "fallthrough"

\* the if/elif chain on increment (Python's % takes the sign of the divisor,
\* as TLA+'s % does for a positive divisor)
TurnKind(increment) ==
    IF Abs(increment) % 4 = 0 THEN "none"
    ELSE IF Abs(increment) % 2 = 0 THEN "180"
    ELSE IF increment % 4 = 1 THEN "cw"
    ELSE IF increment % 4 = 3 THEN "cc"
    ELSE "fallthrough"

\* rot_small_mat of the branch taken
Rotated(small_mat, kind) ==
    IF kind = "180" THEN rotate_180(small_mat)
    ELSE IF kind = "cw" THEN rotate_sqcw(small_mat)
    ELSE IF kind = "cc" THEN rotate_sqcc(small_mat)
    ELSE small_mat

\* the region test on the last two axes only
InRegion_TrailingOnly(c, nslice) ==
    \A k \in 1..Len(nslice) :
       k >= Len(nslice) - 1 => (nslice[k].start <= c[k] /\ c[k] < nslice[k].stop)

\* coordinate c is one of the cells big_mat[tuple(nslice)] designates
InRegion(c, nslice) ==
    \A k \in 1..Len(nslice) : nslice[k].start <= c[k] /\ c[k] < nslice[k].stop

\* big_mat[tuple(nslice)] = src can be carried out: src broadcasts to the
\* shape of the target view (an axis of src has the target's extent or 1)
Assignable(mat, nslice, src) ==
    LET tshape == ExtractShape(mat, nslice)
        n == Len(tshape)
    IN /\ Len(src.shape) <= n
       /\ \A k \in 1..n :
             BDim(src.shape, k, n) = tshape[k] \/ BDim(src.shape, k, n) = 1

\* big_mat[tuple(nslice)] = src, when it can be carried out
Assign(mat, nslice, src) ==
    LET Elem(c) ==
            IF InRegion(c, nslice)
            THEN BAt(src, [k \in 1..Len(c) |-> c[k] - nslice[k].start], Len(c))
            ELSE At(mat, c)
    IN [shape |-> mat.shape,
        data |-> [i \in 1..Size(mat.shape) |-> Elem(Unravel(mat.shape, i - 1))]]

\* what rot_submatrix gets from find_submatrix; kind "skipped" when the
\* shape check returns before the call is made
NoFind == [kind |-> "skipped", location_list |-> <<>>, nslice_list |-> <<>>]

SearchOf(big_mat, small_mat, build) ==
    IF PatternRejected(small_mat) THEN NoFind
    ELSE find_submatrix(big_mat, small_mat, build)

\* rot_submatrix from the result of its search on: ret is what the call
\* returns or raises, big_mat the array afterwards
RotFrom(big_mat, small_mat, increment, search) ==
    LET nslice == search.nslice_list
        kind == TurnKind(increment)
        rot_small_mat == Rotated(small_mat, kind)
    IN IF search.kind = "skipped"
       THEN [ret |-> "None", big_mat |-> big_mat]
       ELSE IF search.kind = "ValueError"
       THEN [ret |-> "ValueError", big_mat |-> big_mat]
       ELSE IF search.kind = "empty"
       THEN \* tuple()[1]
            [ret |-> "IndexError", big_mat |-> big_mat]
       ELSE IF nslice = <<>>
       THEN \* no branch returns: the function falls off its end
            [ret |-> "None", big_mat |-> big_mat]
       ELSE IF kind = "none"
       THEN [ret |-> "big_mat", big_mat |-> big_mat]
       ELSE IF kind = "fallthrough"
       THEN [ret |-> "None", big_mat |-> big_mat]
       ELSE IF Assignable(big_mat, nslice[1], rot_small_mat)
       THEN [ret |-> "big_mat", big_mat |-> Assign(big_mat, nslice[1], rot_small_mat)]
       ELSE [ret |-> "ValueError", big_mat |-> big_mat]

\* rot_submatrix(big_mat, small_mat, increment) under one build of numpy
rot_submatrix(big_mat, small_mat, increment, build) ==
    RotFrom(big_mat, small_mat, increment, SearchOf(big_mat, small_mat, build))

\* ------------------------------------------------------------ the callers
\* shapes of the arrays and patterns the calls are made with
FindArrayShapes == {<<3>>, <<2, 3>>, <<3, 1>>, <<2, 1, 2>>}
FindPatternShapes == {<<2>>, <<1, 1>>, <<1, 2>>, <<2, 1>>, <<2, 2>>, <<3, 1>>, <<1, 1, 1>>}
RotArrayShapes == {<<2>>, <<2, 3>>, <<1, 2, 2>>, <<2, 1, 2>>}
RotPatternShapes == {<<2>>, <<1, 1>>, <<1, 2>>, <<2, 2>>, <<1, 1, 1>>}

VARIABLES
    pc,          \* "start", "found" (find_submatrix was called), "rotated"
                 \* (rot_submatrix was called), "rotated2" (called twice)
    big_mat,     \* the caller's array; rot_submatrix mutates it in place
    small_mat,   \* the pattern passed to the latest call
    increment,   \* the turn count passed to the latest call
    np_build,    \* the installed numpy: "unknown" until a comparison of shapes
                 \* that do not broadcast shows which build it is
    big_in,      \* big_mat as it was when the latest call was made
    found,       \* what the latest call of find_submatrix produced
    ret,         \* what the latest call of rot_submatrix returned or raised
    first        \* the first of two calls of rot_submatrix

vars == <<pc, big_mat, small_mat, increment, np_build, big_in, found, ret, first>>

NoCall == [done |-> FALSE]

InitWith(arrayShapes, patternShapes) ==
    /\ pc = "start"
    /\ \E shp \in arrayShapes : big_mat \in ArraysOf(shp)
    /\ \E shp \in patternShapes : small_mat \in ArraysOf(shp)
    /\ increment = 0
    /\ np_build = "unknown"
    /\ big_in = big_mat
    /\ found = NoFind
    /\ ret = "none"
    /\ first = NoCall

InitFind == InitWith(FindArrayShapes, FindPatternShapes)

InitRot == InitWith(RotArrayShapes, RotPatternShapes)

\* the builds a call may run under: the one already seen, either one when
\* the call is the first to meet a clash, and otherwise still unknown
BuildsAt(clash) ==
    IF np_build # "unknown" THEN {np_build}
    ELSE IF clash THEN Builds
    ELSE {"unknown"}

\* the caller evaluates find_submatrix(big_mat, small_mat)
CallFind ==
    /\ pc = "start"
    /\ \E b \in BuildsAt(Clash(big_mat, small_mat)) :
          /\ found' = find_submatrix(big_mat, small_mat, b)
          /\ np_build' = b
    /\ pc' = "found"
    /\ big_in' = big_mat
    /\ UNCHANGED <<big_mat, small_mat, increment, ret, first>>

\* one call rot_submatrix(big_mat, pattern, inc) from program position at,
\* for any turn count inc: the search is made once, RotFrom does the rest
Rotate(at, pattern) ==
    /\ pc = at
    /\ \E b \in BuildsAt(~PatternRejected(pattern) /\ Clash(big_mat, pattern)) :
       \E search \in {SearchOf(big_mat, pattern, b)} :
       \E inc \in Turns :
       \E r \in {RotFrom(big_mat, pattern, inc, search)} :
       /\ np_build' = b
       /\ big_in' = big_mat
       /\ big_mat' = r.big_mat
       /\ found' = search
       /\ ret' = r.ret
       /\ small_mat' = pattern
       /\ increment' = inc

\* the caller evaluates rot_submatrix(big_mat, small_mat, inc)
CallRot ==
    /\ Rotate("start", small_mat)
    /\ pc' = "rotated"
    /\ UNCHANGED first

\* after a call that wrote a block, the caller evaluates
\* rot_submatrix(big_mat, block, inc) with the block that call wrote
CallRotAgain ==
    /\ ret = "big_mat"
    /\ TurnKind(increment) # "none"
    /\ \E block \in {Rotated(small_mat, TurnKind(increment))} :
          Rotate("rotated", block)
    /\ pc' = "rotated2"
    /\ first' = [done |-> TRUE, small_mat |-> small_mat, increment |-> increment,
                 nslice |-> found.nslice_list[1], big_in |-> big_in]

NextFind == CallFind

NextRot == CallRot \/ CallRotAgain

SpecFind == InitFind /\ [][NextFind]_vars

SpecRot == InitRot /\ [][NextRot]_vars

\* ------------------------------------------------- vocabulary of the claims
\* the corner a slice list starts at
Corner(nslice) == [k \in 1..Len(nslice) |-> nslice[k].start]

\* the cell of mat at offset (i, j), on the last two axes, from a corner
Cell(mat, corner, i, j) ==
    At(mat, [corner EXCEPT ![Len(corner) - 1] = @ + i, ![Len(corner)] = @ + j])

\* a rows x cols region at the corner lies inside mat
Inside(mat, corner, rows, cols) ==
    /\ Len(corner) = Ndim(mat)
    /\ \A k \in 1..Len(corner) : 0 <= corner[k] /\ corner[k] < mat.shape[k]
    /\ corner[Len(corner) - 1] + rows <= mat.shape[Len(corner) - 1]
    /\ corner[Len(corner)] + cols <= mat.shape[Len(corner)]

\* the region of mat at the corner holds the 2-D block turned by r quarter
\* turns clockwise (r = 0: the block itself)
HoldsTurned(mat, corner, block, r) ==
    LET rows == block.shape[1]
        cols == block.shape[2]
    IN /\ Inside(mat, corner, rows, cols)
       /\ \A i \in 0..(rows - 1), j \in 0..(cols - 1) :
             At(block, <<i, j>>) =
                 IF r = 0 THEN Cell(mat, corner, i, j)
                 ELSE IF r = 1 THEN Cell(mat, corner, j, rows - 1 - i)
                 ELSE IF r = 2 THEN Cell(mat, corner, rows - 1 - i, cols - 1 - j)
                 ELSE Cell(mat, corner, cols - 1 - j, i)

\* the pattern occurs in mat at the corner
Occurs(mat, corner, pattern) == HoldsTurned(mat, corner, pattern, 0)

\* the slice list is the region of a rows x cols block at the corner
Describes(nslice, corner, rows, cols) ==
    /\ Len(nslice) = Len(corner)
    /\ \A k \in 1..Len(corner) :
          /\ nslice[k].start = corner[k]
          /\ nslice[k].stop = corner[k] + (IF k = Len(corner) - 1 THEN rows
                                           ELSE IF k = Len(corner) THEN cols
                                           ELSE 1)

\* the call searches a 2-D pattern no larger than the last two axes of an
\* array of rank 2 or more: the inputs find_submatrix is specified for
Searchable ==
    /\ Ndim(small_mat) = 2
    /\ Ndim(big_in) >= 2
    /\ small_mat.shape[1] <= big_in.shape[Ndim(big_in) - 1]
    /\ small_mat.shape[2] <= big_in.shape[Ndim(big_in)]

\* coordinate c lies in the rows x cols block at the corner
InBlock(c, corner, rows, cols) ==
    \A k \in 1..Len(c) :
       /\ corner[k] <= c[k]
       /\ c[k] < corner[k] + (IF k = Len(c) - 1 THEN rows
                              ELSE IF k = Len(c) THEN cols
                              ELSE 1)

\* coordinate c lies in the region of the first placement of the latest
\* search, if it returned one
InFirstRegion(c) ==
    /\ found.kind = "pair"
    /\ found.location_list # <<>>
    /\ InBlock(c, found.location_list[1], small_mat.shape[1], small_mat.shape[2])

\* the latest search returned at least one placement
Placed == found.kind = "pair" /\ found.location_list # <<>>

\* ----------------------------------------------------------------- claims
\* C1: every placement find_submatrix returns is a region inside the array
\* that holds the pattern cell for cell, and a candidate whose region runs
\* past the trailing edge is a non-match: never returned, never an error.
C1_PlacementsMatch ==
    (pc = "found" /\ Searchable) =>
        /\ found.kind = "pair"
        /\ \A i \in 1..Len(found.location_list) :
              /\ Occurs(big_mat, found.location_list[i], small_mat)
              /\ Describes(found.nslice_list[i], found.location_list[i],
                           small_mat.shape[1], small_mat.shape[2])

\* C2: every in-bounds corner where the pattern occurs is returned exactly
\* once, the corners come in row-major order, and the i-th slice list is
\* the region of the i-th corner.
C2_AllOccurrencesInOrder ==
    (pc = "found" /\ Searchable) =>
        /\ \A c \in Coords(big_mat.shape) :
              Occurs(big_mat, c, small_mat) =>
                 /\ found.kind = "pair"
                 /\ Cardinality({i \in 1..Len(found.location_list) :
                                    found.location_list[i] = c}) = 1
        /\ \A i, j \in 1..Len(found.location_list) :
              i < j => Offset(big_mat.shape, found.location_list[i])
                         < Offset(big_mat.shape, found.location_list[j])
        /\ Len(found.nslice_list) = Len(found.location_list)
        /\ \A i \in 1..Len(found.location_list) :
              Describes(found.nslice_list[i], found.location_list[i],
                        small_mat.shape[1], small_mat.shape[2])

\* C3: when the search returns a placement, the region of the first one
\* holds the pattern turned by increment mod 4 (floor modulo: 1, 2 or 3)
\* quarter turns clockwise after rot_submatrix, for negative turn counts
\* too.
C3_FirstPlacementTurned ==
    (pc = "rotated" /\ Placed /\ increment % 4 # 0) =>
        /\ ret = "big_mat"
        /\ HoldsTurned(big_mat, found.location_list[1], small_mat, increment % 4)

\* C4 as stated: rot_submatrix keeps the shape, changes no cell outside the
\* region of the first placement, and leaves every later placement as it
\* was.
C4_LaterPlacementsKept ==
    (pc = "rotated") =>
        /\ big_mat.shape = big_in.shape
        /\ \A c \in Coords(big_in.shape) :
              ~InFirstRegion(c) => At(big_mat, c) = At(big_in, c)
        /\ \A i \in 2..Len(found.location_list) :
              Occurs(big_in, found.location_list[i], small_mat)
                 => Occurs(big_mat, found.location_list[i], small_mat)

\* C4 as amended: rot_submatrix keeps the shape and changes no cell outside
\* the region of the first placement; a later placement keeps every cell
\* it does not share with that region.
C4_FrameOutsideFirstRegion ==
    (pc \in {"rotated", "rotated2"}) =>
        /\ big_mat.shape = big_in.shape
        /\ \A c \in Coords(big_in.shape) :
              ~InFirstRegion(c) => At(big_mat, c) = At(big_in, c)

\* witness of C4: a call with several placements rewrote the array
C4_Witness ==
    /\ pc = "rotated"
    /\ Len(found.location_list) >= 2
    /\ Occurs(big_in, found.location_list[2], small_mat)
    /\ ret = "big_mat"
    /\ big_mat # big_in

\* C5: when the search finds no placement, rot_submatrix returns the array
\* itself, unchanged, and raises nothing.
C5_NoMatchReturnsArray ==
    (pc = "rotated" /\ found.kind = "pair" /\ found.location_list = <<>>) =>
        /\ ret = "big_mat"
        /\ big_mat = big_in

InversePair ==
    /\ pc = "rotated2"
    /\ \/ first.increment = 1 /\ increment \in {3, 0 - 1}
       \/ first.increment = 2 /\ increment = 2

C8_BadShapeReturnsNone ==
    (/\ pc = "rotated"
     /\ \/ Ndim(small_mat) # 2
        \/ small_mat.shape[1] # small_mat.shape[2]) =>
        /\ ret = "None"
        /\ found.kind = "skipped"
        /\ big_mat = big_in

\* witness of C8: a 2-D pattern that is not square was turned down
C8_Witness ==
    /\ pc = "rotated"
    /\ Ndim(small_mat) = 2
    /\ small_mat.shape[1] # small_mat.shape[2]
    /\ ret = "None"

\* C9: a pattern that is not 2-D, or has more axes than the array, makes
\* find_submatrix return its empty result: no placement, nothing raised,
\* the array untouched.
C9_BadPatternFindsNothing ==
    (/\ pc = "found"
     /\ \/ Ndim(small_mat) # 2
        \/ Ndim(small_mat) > Ndim(big_in)) =>
        /\ found.kind = "empty"
        /\ found.location_list = <<>>
        /\ found.nslice_list = <<>>
        /\ big_mat = big_in

\* witness of C9: a 2-D pattern was searched in a 1-D array
C9_Witness ==
    /\ pc = "found"
    /\ Ndim(small_mat) = 2
    /\ Ndim(big_in) = 1
    /\ found.kind = "empty"

\* C10: rot_submatrix is total: every call ends by returning the array or
\* None, never by raising.
C10_NeverRaises ==
    (pc \in {"rotated", "rotated2"}) => ret \in {"big_mat", "None"}

====
